---- MODULE Spec2Model ----
(***************************************************************************)
(* The draw-and-guess server of src/server.js as a state machine.          *)
(*                                                                         *)
(* The state is the module-level data of server.js (rooms, players,        *)
(* roomStatistics, roomChatHistory), the fields of every GameRoom, the     *)
(* currentPlayer of every connection closure, and the armed timers         *)
(* (setInterval countdown, setTimeout continuations).  One action is one   *)
(* run-to-completion event: a socket handler or a timer callback.          *)
(*                                                                         *)
(* Conventions.  A JS Map is a function whose DOMAIN is its key set; the   *)
(* insertion-ordered roster (GameRoom.players) is a sequence of player     *)
(* ids; gameState is <<>> when null and <<record>> otherwise; the id 0     *)
(* stands for null/undefined where an id is expected.  Strings that the    *)
(* code transforms (guesses, words) are sequences of characters.           *)
(* generatePlayerId() and uuidv4() are modelled as fresh ids taken from    *)
(* counters.  Display names are opaque and not stored.                     *)
(***************************************************************************)
EXTENDS Integers, Sequences, FiniteSets, TLC

(***************************************************************************)
(* Bounds of the explored scenarios.                                       *)
(***************************************************************************)
NumSockets == 3       \* connections that exist at all
MaxRooms == 1         \* rooms created
LobbySockets == 2     \* Spec: connections used
MaxPlayerIds == 3     \* Spec: player objects created
MaxMessages == 1      \* Spec: chat messages stored per room
MaxTicks == 2         \* Spec: countdown ticks explored per round
MatchSockets == 2     \* SpecMatch: connections used
MatchMessages == 12   \* SpecMatch: chat messages stored per room
MatchTicks == 1       \* SpecMatch: countdown ticks explored per round
RoundPlayerIds == 3   \* SpecRounds: player objects created
ScorePlayerIds == 3   \* SpecScore: player objects created
FullSockets == 2
FullPlayerIds == 9
WordSockets == 2
WordMessages == 4
CanvasSockets == 3
ChatSockets == 2
ChatSenders == 1
LiveSockets == 2
LivePlayerIds == 2
LiveMessages == 1
TickSockets == 2
CrowdMessages == 1
ClockSockets == 2
ClockMessages == 2
ScoreMessages == 2    \* SpecScore: chat messages stored per room

(***************************************************************************)
(* Program constants.                                                      *)
(***************************************************************************)
MAX_PLAYERS == 8              \* this.maxPlayers
ROUND_SECONDS == 60           \* gameState.timer at round start
WINNING_SCORE == 1000
DRAWER_POINTS == 40
GUESSER_POINTS == 30
BONUS_STEP == 10
CHAT_HISTORY_CAP == 100
TICK_MS == 1000               \* setInterval period
NEXT_ROUND_DELAY_MS == 3000   \* setTimeout delay before startNewRound

Sockets == 1..NumSockets
RoomIds == 1..MaxRooms
NoPlayer == 0
NoRoom == 0
NoGameState == <<>>
NoCanvas == "null"

(***************************************************************************)
(* Sequence helpers.                                                       *)
(***************************************************************************)
Range(seq) == {seq[i] : i \in 1..Len(seq)}

Contains(seq, x) == \E i \in 1..Len(seq) : seq[i] = x

Without(seq, x) == SelectSeq(seq, LAMBDA y : y # x)

(***************************************************************************)
(* Strings as character sequences: String.prototype.toLowerCase and trim.  *)
(***************************************************************************)
LowerChar(c) ==
    CASE c = "A" -> "a" [] c = "C" -> "c" [] c = "H" -> "h" [] c = "N" -> "n"
      [] c = "S" -> "s" [] c = "T" -> "t" [] c = "U" -> "u" [] OTHER -> c

UpperChar(c) ==
    CASE c = "a" -> "A" [] c = "c" -> "C" [] c = "h" -> "H" [] c = "n" -> "N"
      [] c = "s" -> "S" [] c = "t" -> "T" [] c = "u" -> "U" [] OTHER -> c

toLowerCase(str) == [i \in 1..Len(str) |-> LowerChar(str[i])]

toUpperCase(str) == [i \in 1..Len(str) |-> UpperChar(str[i])]

RECURSIVE trimStart(_)
trimStart(str) ==
    IF str # <<>> /\ Head(str) = " " THEN trimStart(Tail(str)) ELSE str

RECURSIVE trimEnd(_)
trimEnd(str) ==
    IF str # <<>> /\ str[Len(str)] = " "
    THEN trimEnd(SubSeq(str, 1, Len(str) - 1))
    ELSE str

trim(str) == trimEnd(trimStart(str))

(***************************************************************************)
(* wordLists: the JSON word lists are data outside the source; each list   *)
(* is a fixed ordered collection of lower-case words.                      *)
(***************************************************************************)
wordLists ==
    [en |-> << <<"c", "a", "t">>, <<"s", "u", "n">>, <<"o", "w", "l">> >>,
     sv |-> << <<"h", "u", "s">> >>]

WordsFor(language) ==
    IF language \in DOMAIN wordLists THEN wordLists[language] ELSE wordLists["en"]

VARIABLES
    sockets,          \* per connection: state and the closure's currentPlayer
    nextPlayerId,     \* next id generatePlayerId() returns
    nextRoomId,       \* next id uuidv4() returns
    playerObjs,       \* every player object created: id -> [socket, room]
    players,          \* the players Map (its key set)
    rooms,            \* the rooms Map: room id -> GameRoom fields
    roomChatHistory,  \* the roomChatHistory Map: room id -> messages
    roomStatistics,   \* the cached counters
    timeouts,         \* per GameRoom object: pending setTimeout continuations
    emitted,          \* events emitted by the last handler, in order
    gameEnded,        \* history: the GameRoom objects that emitted game_ended
    crashed           \* the process died of an uncaught exception

vars == <<sockets, nextPlayerId, nextRoomId, playerObjs, players, rooms,
          roomChatHistory, roomStatistics, timeouts, emitted, gameEnded,
          crashed>>


DelayTicks == NEXT_ROUND_DELAY_MS \div TICK_MS

(***************************************************************************)
(* The world a handler runs in: the module-level data and every GameRoom,  *)
(* threaded through the methods it calls.  `emitted` collects what the     *)
(* handler sends.                                                          *)
(***************************************************************************)
World ==
    [rooms |-> rooms, roomChatHistory |-> roomChatHistory,
     roomStatistics |-> roomStatistics, playerObjs |-> playerObjs,
     timeouts |-> timeouts, emitted |-> <<>>]

ToRoom(r, ids) == [room |-> r, ids |-> ids]

ToSocket(s) == [socket |-> s]

ToAll == [all |-> TRUE]

Event(name, to, data) == [name |-> name, to |-> to, data |-> data]

Emit(w, ev) == [w EXCEPT !.emitted = Append(@, ev)]

\* The events called `name` among `events` that were sent to room r.
SentTo(events, r, name) ==
    {i \in 1..Len(events) : /\ events[i].name = name
                            /\ "room" \in DOMAIN events[i].to
                            /\ events[i].to.room = r}

serializePlayer(room, pid) == [id |-> pid, isHost |-> (pid = room.host)]

getSerializedPlayers(room) ==
    [i \in 1..Len(room.players) |-> serializePlayer(room, room.players[i])]

serialize(room, r) ==
    [id |-> r, playerCount |-> Len(room.players), maxPlayers |-> MAX_PLAYERS,
     status |-> room.status, language |-> room.language,
     host |-> IF Contains(room.players, room.host) THEN room.host ELSE NoPlayer]

\* player.socket.emit for every roster member but excludePlayerId; nothing is
\* sent when no member is left to receive it.
broadcastToRoom(w, r, name, data, excludePlayerId) ==
    LET ids == Without(w.rooms[r].players, excludePlayerId)
    IN  IF ids = <<>> THEN w ELSE Emit(w, Event(name, ToRoom(r, ids), data))

SystemMessage(text) == [player |-> NoPlayer, message |-> text, type |-> "system"]

updateStatistics(stats, action, oldStatus, status) ==
    CASE action = "add" ->
            [stats EXCEPT !.total = @ + 1, !.waiting = @ + 1]
      [] action = "statusChange" ->
            LET s1 == IF stats[oldStatus] > 0
                      THEN [stats EXCEPT ![oldStatus] = @ - 1] ELSE stats
            IN  IF s1[status] >= 0 THEN [s1 EXCEPT ![status] = @ + 1] ELSE s1
      [] action = "remove" ->
            LET s1 == [stats EXCEPT !.total = @ - 1]
            IN  IF s1[status] > 0 THEN [s1 EXCEPT ![status] = @ - 1] ELSE s1

\* set status(newStatus): previousStatus is written and read within the call.
SetStatus(w, r, newStatus) ==
    LET old == w.rooms[r].status
    IN  IF old # newStatus
        THEN [w EXCEPT !.rooms[r].status = newStatus,
                       !.roomStatistics =
                           updateStatistics(@, "statusChange", old, newStatus)]
        ELSE w

\* Mutant: finished rooms are left out of the recount.
getRoomStatisticsUnfinished(rs) ==
    [total |-> Cardinality(DOMAIN rs),
     waiting |-> Cardinality({r \in DOMAIN rs : rs[r].status = "waiting"}),
     playing |-> Cardinality({r \in DOMAIN rs : rs[r].status = "playing"}),
     finished |-> 0]

getRoomStatistics(rs) ==
    [total |-> Cardinality(DOMAIN rs),
     waiting |-> Cardinality({r \in DOMAIN rs : rs[r].status = "waiting"}),
     playing |-> Cardinality({r \in DOMAIN rs : rs[r].status = "playing"}),
     finished |-> Cardinality({r \in DOMAIN rs : rs[r].status = "finished"})]

Restrict(f, S) == [x \in S |-> f[x]]

RECURSIVE cleanupRoom(_, _)
RECURSIVE getAvailableRooms(_)
RECURSIVE broadcastGlobalRoomListUpdate(_)

\* The clean-up sweep of getAvailableRooms: every registered room with an
\* empty roster is cleaned up, in Map order.
getAvailableRooms(w) ==
    LET empty == {r \in DOMAIN w.rooms : w.rooms[r].players = <<>>}
    IN  IF empty = {} THEN w
        ELSE LET r == CHOOSE x \in empty : \A y \in empty : x <= y
             IN  getAvailableRooms(cleanupRoom(w, r))

AvailableRooms(rs) ==
    {serialize(rs[r], r) : r \in {x \in DOMAIN rs : rs[x].status = "waiting"}}

broadcastGlobalRoomListUpdate(w) ==
    LET w1 == getAvailableRooms(w)
        statistics == getRoomStatistics(w1.rooms)
        w2 == [w1 EXCEPT !.roomStatistics = statistics]
    IN  Emit(w2, Event("room_list_updated", ToAll,
                       [rooms |-> AvailableRooms(w2.rooms),
                        statistics |-> statistics]))

\* Mutant: the chat history of the room is kept.
cleanupRoomKeepingChat(w, r) ==
    LET room == w.rooms[r]
        w1 == [w EXCEPT
                 !.roomStatistics = updateStatistics(@, "remove", room.status,
                                                     room.status),
                 !.rooms = Restrict(@, DOMAIN @ \ {r})]
    IN  broadcastGlobalRoomListUpdate(w1)

\* The room's countdown is cleared and its fields are dropped with its entry.
cleanupRoom(w, r) ==
    LET room == w.rooms[r]
        w1 == [w EXCEPT
                 !.roomChatHistory = Restrict(@, DOMAIN @ \ {r}),
                 !.playerObjs = [p \in DOMAIN @ |->
                                   IF Contains(room.players, p)
                                   THEN [@[p] EXCEPT !.room = NoRoom] ELSE @[p]],
                 !.roomStatistics = updateStatistics(@, "remove", room.status,
                                                     room.status),
                 !.rooms = Restrict(@, DOMAIN @ \ {r})]
    IN  broadcastGlobalRoomListUpdate(w1)


(***************************************************************************)
(* GameRoom methods.  Each takes the world and the room id of `this` and   *)
(* returns the world after the call.                                       *)
(***************************************************************************)
\* Mutant: the capacity check lets one player too many in.
addPlayerThrowsLate(room) == Len(room.players) > MAX_PLAYERS

addPlayerThrows(room) == Len(room.players) >= MAX_PLAYERS

addPlayer(w, r, pid) ==
    LET w1 == [w EXCEPT !.rooms[r].players = Append(@, pid),
                        !.playerObjs[pid].room = r]
    IN  broadcastToRoom(w1, r, "player_joined",
                        [player |-> serializePlayer(w1.rooms[r], pid),
                         players |-> getSerializedPlayers(w1.rooms[r]),
                         host |-> w1.rooms[r].host],
                        NoPlayer)

\* new GameRoom(roomId, host, roomName, language) followed by rooms.set.
\* Nothing in the constructor reads the rooms Map, so the room is entered
\* into it first.
NewGameRoom(w, r, hostId, language) ==
    LET room == [language |-> language, players |-> <<>>, host |-> hostId,
                 gameState |-> NoGameState, status |-> "waiting",
                 timerInterval |-> FALSE]
        w1 == [w EXCEPT
                 !.rooms = [x \in DOMAIN @ \cup {r} |->
                              IF x = r THEN room ELSE @[x]],
                 !.roomChatHistory = [x \in DOMAIN @ \cup {r} |->
                                        IF x = r THEN <<>> ELSE @[x]]]
        w2 == addPlayer(w1, r, hostId)
    IN  [w2 EXCEPT !.roomStatistics =
                       updateStatistics(@, "add", "waiting", "waiting")]

\* Mutant: at the cap the new message is dropped instead of the oldest.
addChatMessageKeepingOldest(w, r, messageData) ==
    LET history == IF r \in DOMAIN w.roomChatHistory
                   THEN w.roomChatHistory[r] ELSE <<>>
        pushed == Append(history, messageData)
        kept == IF Len(pushed) > CHAT_HISTORY_CAP
                THEN SubSeq(pushed, 1, CHAT_HISTORY_CAP)
                ELSE pushed
    IN  [w EXCEPT !.roomChatHistory =
                      [x \in DOMAIN @ \cup {r} |-> IF x = r THEN kept ELSE @[x]]]

addChatMessage(w, r, messageData) ==
    LET history == IF r \in DOMAIN w.roomChatHistory
                   THEN w.roomChatHistory[r] ELSE <<>>
        pushed == Append(history, messageData)
        kept == IF Len(pushed) > CHAT_HISTORY_CAP
                THEN SubSeq(pushed, Len(pushed) - CHAT_HISTORY_CAP + 1, Len(pushed))
                ELSE pushed
    IN  [w EXCEPT !.roomChatHistory =
                      [x \in DOMAIN @ \cup {r} |-> IF x = r THEN kept ELSE @[x]]]

getChatHistory(w, r) ==
    IF r \in DOMAIN w.roomChatHistory THEN w.roomChatHistory[r] ELSE <<>>

clearInterval(w, r) == [w EXCEPT !.rooms[r].timerInterval = FALSE]

\* setTimeout(() => this.startNewRound(), 3000): a continuation that has seen
\* no countdown tick yet.
setTimeout(w, r) == [w EXCEPT !.timeouts[r] = Append(@, 0)]

\* Mutant: the game is announced as over but the room goes on playing.
endGameStillPlaying(w, r) ==
    LET w1 == clearInterval(w, r)
        room == w1.rooms[r]
        remainingPlayer == IF Len(room.players) = 1
                           THEN <<serializePlayer(room, room.players[1])>>
                           ELSE <<>>
        w2 == broadcastToRoom(w1, r, "chat_message",
                              SystemMessage("not_enough_players"), NoPlayer)
        w3 == broadcastToRoom(w2, r, "game_ended_early",
                              [reason |-> "not_enough_players",
                               remainingPlayer |-> remainingPlayer],
                              NoPlayer)
    IN  broadcastGlobalRoomListUpdate(w3)

\* Mutant: the game falls back to waiting when too few players remain.
endGameBackToWaiting(w, r) ==
    LET w1 == clearInterval(w, r)
        room == w1.rooms[r]
        \* <<>> for null, as for gameState
        remainingPlayer == IF Len(room.players) = 1
                           THEN <<serializePlayer(room, room.players[1])>>
                           ELSE <<>>
        w2 == broadcastToRoom(w1, r, "chat_message",
                              SystemMessage("not_enough_players"), NoPlayer)
        w3 == broadcastToRoom(w2, r, "game_ended_early",
                              [reason |-> "not_enough_players",
                               remainingPlayer |-> remainingPlayer],
                              NoPlayer)
        w4 == SetStatus(w3, r, "waiting")
        w5 == [w4 EXCEPT !.rooms[r].gameState = NoGameState]
    IN  broadcastGlobalRoomListUpdate(w5)

endGameDueToInsufficientPlayers(w, r) ==
    LET w1 == clearInterval(w, r)
        room == w1.rooms[r]
        \* <<>> for null, as for gameState
        remainingPlayer == IF Len(room.players) = 1
                           THEN <<serializePlayer(room, room.players[1])>>
                           ELSE <<>>
        w2 == broadcastToRoom(w1, r, "chat_message",
                              SystemMessage("not_enough_players"), NoPlayer)
        w3 == broadcastToRoom(w2, r, "game_ended_early",
                              [reason |-> "not_enough_players",
                               remainingPlayer |-> remainingPlayer],
                              NoPlayer)
        w4 == SetStatus(w3, r, "finished")
        w5 == [w4 EXCEPT !.rooms[r].gameState = NoGameState]
    IN  broadcastGlobalRoomListUpdate(w5)

\* Mutant: the departed host stays host.
staleHostId(room) == room.host

\* Array.from(this.players.keys())[0]
newHostId(room) == room.players[1]

removePlayer(w, r, playerId) ==
    IF ~Contains(w.rooms[r].players, playerId) THEN w
    ELSE
    LET w1 == [w EXCEPT !.rooms[r].players = Without(@, playerId)]
        w2 == broadcastToRoom(w1, r, "chat_message", SystemMessage("left"),
                              NoPlayer)
        w3 == IF w2.rooms[r].host = playerId /\ Len(w2.rooms[r].players) > 0
              THEN broadcastToRoom(
                       [w2 EXCEPT !.rooms[r].host = newHostId(w2.rooms[r])],
                       r, "chat_message", SystemMessage("new_host"), NoPlayer)
              ELSE w2
        w4 == broadcastToRoom(w3, r, "player_left",
                              [playerId |-> playerId,
                               players |-> getSerializedPlayers(w3.rooms[r]),
                               host |-> w3.rooms[r].host],
                              NoPlayer)
    IN  IF w4.rooms[r].status = "playing" /\ Len(w4.rooms[r].players) <= 1
        THEN endGameDueToInsufficientPlayers(w4, r)
        ELSE IF Len(w4.rooms[r].players) = 0
        THEN cleanupRoom(w4, r)
        ELSE broadcastGlobalRoomListUpdate(w4)

(***************************************************************************)
(* Rounds.                                                                 *)
(***************************************************************************)
GameState(room) == room.gameState[1]

\* The candidates of getRandomWord: the unused words, or the whole list when
\* none is left.
\* Mutant: used words stay candidates.
availableWordsAgain(room) == WordsFor(room.language)

availableWords(room) ==
    LET words == WordsFor(room.language)
        unused == SelectSeq(words, LAMBDA x : ~Contains(GameState(room).usedWords, x))
    IN  IF unused = <<>> THEN words ELSE unused

\* getRandomWord with `word` the candidate Math.random picked.
usedWordsAfter(room, word) ==
    LET words == WordsFor(room.language)
        unused == SelectSeq(words, LAMBDA x : ~Contains(GameState(room).usedWords, x))
    IN  IF unused = <<>> THEN <<word>> ELSE Append(GameState(room).usedWords, word)

startTimer(w, r) == [w EXCEPT !.rooms[r].timerInterval = TRUE]

nextPlayerIndex(currentPlayerIndex, size) == (currentPlayerIndex + 1) % size

\* startNewRound on a room whose gameState is an object.
startNewRound(w, r, word) ==
    LET room == w.rooms[r]
        gs == GameState(room)
        index == nextPlayerIndex(gs.currentPlayerIndex, Len(room.players))
        drawingPlayerId == room.players[index + 1]
        gs1 == [gs EXCEPT !.currentPlayerIndex = index,
                          !.drawingPlayerId = drawingPlayerId,
                          !.currentWord = word,
                          !.usedWords = usedWordsAfter(room, word),
                          !.canvasData = NoCanvas,
                          !.timer = ROUND_SECONDS]
        w1 == [w EXCEPT !.rooms[r].gameState = <<gs1>>]
        w2 == broadcastToRoom(w1, r, "new_round",
                              [drawingPlayerId |-> drawingPlayerId,
                               currentWord |-> word, gameState |-> gs1],
                              NoPlayer)
    IN  startTimer(w2, r)

\* Mutant: one player is enough to start.
startGameOkAlone(room) == room.status = "waiting" /\ Len(room.players) >= 1

startGameOk(room) == room.status = "waiting" /\ Len(room.players) >= 2

startGame(w, r, word) ==
    LET w1 == SetStatus(w, r, "playing")
        gs == [currentRound |-> 0, currentPlayerIndex |-> -1,
               currentWord |-> <<>>, timer |-> ROUND_SECONDS,
               scores |-> [i \in 1..Len(w1.rooms[r].players) |->
                             [id |-> w1.rooms[r].players[i], score |-> 0]],
               drawingPlayerId |-> NoPlayer, usedWords |-> <<>>,
               canvasData |-> NoCanvas]
        w2 == [w1 EXCEPT !.rooms[r].gameState = <<gs>>]
        w3 == broadcastToRoom(w2, r, "game_started", [gameState |-> gs], NoPlayer)
        w4 == startNewRound(w3, r, word)
    IN  broadcastGlobalRoomListUpdate(w4)

resetGame(w, r) ==
    LET w1 == SetStatus(w, r, "waiting")
        w2 == [w1 EXCEPT !.rooms[r].gameState = NoGameState]
        w3 == broadcastToRoom(w2, r, "game_reset",
                              [players |-> getSerializedPlayers(w2.rooms[r])],
                              NoPlayer)
    IN  broadcastGlobalRoomListUpdate(w3)

\* Mutant: the word is revealed but no next round is scheduled.
endRoundForGood(w, r) ==
    broadcastToRoom(w, r, "round_ended",
                    [word |-> GameState(w.rooms[r]).currentWord], NoPlayer)

endRound(w, r) ==
    LET w1 == broadcastToRoom(w, r, "round_ended",
                              [word |-> GameState(w.rooms[r]).currentWord],
                              NoPlayer)
    IN  setTimeout(w1, r)


scoreEntry(scores, id) == CHOOSE i \in 1..Len(scores) : scores[i].id = id

scoreOf(scores, id) == scores[scoreEntry(scores, id)].score

addScore(scores, id, points) ==
    [i \in 1..Len(scores) |->
        IF scores[i].id = id THEN [scores[i] EXCEPT !.score = @ + points]
        ELSE scores[i]]

\* Mutant: the bonus is not rounded down to a multiple of ten.
timeBonusUnrounded(timer) == timer

timeBonus(timer) == (timer \div BONUS_STEP) * BONUS_STEP

drawingPlayerPoints(timer) == DRAWER_POINTS + timeBonus(timer)

guessingPlayerPoints(timer) == GUESSER_POINTS + timeBonus(timer)

\* Mutant: the loop reports the last entry at the winning score.
lastAtWinningScore(scores) ==
    LET at == {i \in 1..Len(scores) : scores[i].score >= WINNING_SCORE}
    IN  IF at = {} THEN 0 ELSE CHOOSE i \in at : \A j \in at : i >= j

\* The entry the loop of checkForWinner stops at (0 when it runs through).
firstAtWinningScore(scores) ==
    LET at == {i \in 1..Len(scores) : scores[i].score >= WINNING_SCORE}
    IN  IF at = {} THEN 0 ELSE CHOOSE i \in at : \A j \in at : i <= j

checkForWinner(w, r) ==
    LET scores == GameState(w.rooms[r]).scores
        i == firstAtWinningScore(scores)
        w1 == IF i # 0 /\ Contains(w.rooms[r].players, scores[i].id)
              THEN LET a == broadcastToRoom(w, r, "game_ended",
                                [winner |-> serializePlayer(w.rooms[r], scores[i].id),
                                 winnerScore |-> scores[i].score],
                                NoPlayer)
                       b == clearInterval(SetStatus(a, r, "finished"), r)
                       c == broadcastGlobalRoomListUpdate(b)
                   IN  broadcastToRoom(c, r, "chat_message",
                                       SystemMessage("won"), NoPlayer)
              ELSE w
    IN  IF w1.rooms[r].status = "playing" /\ Len(w1.rooms[r].players) <= 1
        THEN endGameDueToInsufficientPlayers(w1, r)
        ELSE w1

guessMatches(guess, currentWord) == trim(toLowerCase(guess)) = toLowerCase(currentWord)

\* The guard of the scoring branch of handleGuess.
guessScores(room, playerId, guess) ==
    /\ room.status = "playing"
    /\ playerId # GameState(room).drawingPlayerId
    /\ guessMatches(guess, GameState(room).currentWord)
    /\ Contains(room.players, GameState(room).drawingPlayerId)
    /\ Contains(room.players, playerId)

handleGuess(w, r, playerId, guess) ==
    IF ~guessScores(w.rooms[r], playerId, guess) THEN w
    ELSE
    LET gs == GameState(w.rooms[r])
        scores == addScore(addScore(gs.scores, gs.drawingPlayerId,
                                    drawingPlayerPoints(gs.timer)),
                           playerId, guessingPlayerPoints(gs.timer))
        w1 == [w EXCEPT !.rooms[r].gameState[1].scores = scores]
        w2 == broadcastToRoom(w1, r, "correct_guess",
                  [guessingPlayer |-> serializePlayer(w1.rooms[r], playerId),
                   drawingPlayer |-> serializePlayer(w1.rooms[r], gs.drawingPlayerId),
                   guessingPlayerPoints |-> guessingPlayerPoints(gs.timer),
                   drawingPlayerPoints |-> drawingPlayerPoints(gs.timer),
                   scores |-> scores],
                  NoPlayer)
        w3 == checkForWinner(w2, r)
    IN  setTimeout(clearInterval(w3, r), r)

\* Mutant: the drawer gets the echo too.
updateCanvasEchoed(w, r, canvasData) ==
    IF w.rooms[r].gameState = NoGameState THEN w
    ELSE LET w1 == [w EXCEPT !.rooms[r].gameState[1].canvasData = canvasData]
         IN  broadcastToRoom(w1, r, "canvas_updated", [canvasData |-> canvasData],
                             NoPlayer)

updateCanvas(w, r, canvasData) ==
    IF w.rooms[r].gameState = NoGameState THEN w
    ELSE LET w1 == [w EXCEPT !.rooms[r].gameState[1].canvasData = canvasData]
         IN  broadcastToRoom(w1, r, "canvas_updated", [canvasData |-> canvasData],
                             GameState(w1.rooms[r]).drawingPlayerId)

\* One second of the countdown, seen by every pending continuation.
age(w) == [w EXCEPT !.timeouts = [r \in DOMAIN @ |->
                                    [i \in 1..Len(@[r]) |-> @[r][i] + 1]]]

\* Mutant: at 0 the round is ended but the countdown goes on ticking.
timerCallbackTickingOn(w, r) ==
    IF w.rooms[r].gameState = NoGameState \/ w.rooms[r].status # "playing"
    THEN clearInterval(w, r)
    ELSE LET w1 == [w EXCEPT !.rooms[r].gameState[1].timer = @ - 1]
             timer == GameState(w1.rooms[r]).timer
             w2 == broadcastToRoom(w1, r, "timer_update", [timer |-> timer],
                                   NoPlayer)
         IN  IF timer <= 0 THEN endRound(w2, r) ELSE w2

\* Mutant: the round is ended one tick late, below 0.
timerCallbackLate(w, r) ==
    IF w.rooms[r].gameState = NoGameState \/ w.rooms[r].status # "playing"
    THEN clearInterval(w, r)
    ELSE LET w1 == [w EXCEPT !.rooms[r].gameState[1].timer = @ - 1]
             timer == GameState(w1.rooms[r]).timer
             w2 == broadcastToRoom(w1, r, "timer_update", [timer |-> timer],
                                   NoPlayer)
         IN  IF timer < 0 THEN endRound(clearInterval(w2, r), r) ELSE w2

\* The setInterval callback of startTimer.
timerCallback(w, r) ==
    IF w.rooms[r].gameState = NoGameState \/ w.rooms[r].status # "playing"
    THEN clearInterval(w, r)
    ELSE LET w1 == [w EXCEPT !.rooms[r].gameState[1].timer = @ - 1]
             timer == GameState(w1.rooms[r]).timer
             w2 == broadcastToRoom(w1, r, "timer_update", [timer |-> timer],
                                   NoPlayer)
         IN  IF timer <= 0 THEN endRound(clearInterval(w2, r), r) ELSE w2


(***************************************************************************)
(* Initial state: the module-level data of server.js as the process        *)
(* starts, with no connection accepted yet.                                *)
(***************************************************************************)
Init ==
    /\ sockets = [s \in Sockets |-> [state |-> "new", currentPlayer |-> NoPlayer]]
    /\ nextPlayerId = 1
    /\ nextRoomId = 1
    /\ playerObjs = <<>>
    /\ players = {}
    /\ rooms = <<>>
    /\ roomChatHistory = <<>>
    /\ roomStatistics = [total |-> 0, waiting |-> 0, playing |-> 0, finished |-> 0]
    /\ timeouts = [r \in RoomIds |-> <<>>]
    /\ emitted = <<>>
    /\ gameEnded = {}
    /\ crashed = FALSE

\* The handler returned: its writes and its emissions become the state.
Commit(w) ==
    /\ rooms' = w.rooms
    /\ roomChatHistory' = w.roomChatHistory
    /\ roomStatistics' = w.roomStatistics
    /\ playerObjs' = w.playerObjs
    /\ timeouts' = w.timeouts
    /\ emitted' = w.emitted
    /\ gameEnded' = gameEnded \cup {r \in RoomIds : SentTo(w.emitted, r, "game_ended") # {}}

\* An exception no handler catches, thrown from a timer callback: the
\* process exits, and with it every connection and all in-memory state.
UncaughtException ==
    /\ crashed' = TRUE
    /\ sockets' = [s \in Sockets |-> [state |-> "closed", currentPlayer |-> NoPlayer]]
    /\ nextPlayerId' = 1
    /\ nextRoomId' = 1
    /\ playerObjs' = <<>>
    /\ players' = {}
    /\ rooms' = <<>>
    /\ roomChatHistory' = <<>>
    /\ roomStatistics' = [total |-> 0, waiting |-> 0, playing |-> 0, finished |-> 0]
    /\ timeouts' = [r \in RoomIds |-> <<>>]
    /\ emitted' = <<>>
    /\ gameEnded' = {}

Open(s) == ~crashed /\ sockets[s].state = "open"

currentPlayer(s) == sockets[s].currentPlayer

\* rooms.get(currentPlayer.room), NoRoom when there is no such room.
currentRoom(s) ==
    IF playerObjs[currentPlayer(s)].room \in DOMAIN rooms
    THEN playerObjs[currentPlayer(s)].room ELSE NoRoom

Error(s, message) == Event("error", ToSocket(s), [message |-> message])

(***************************************************************************)
(* io.on('connection'): the initial room list is sent to the new socket.   *)
(***************************************************************************)
Connection(s) ==
    /\ ~crashed
    /\ sockets[s].state = "new"
    /\ LET w1 == getAvailableRooms(World)
           statistics == getRoomStatistics(w1.rooms)
           w2 == [w1 EXCEPT !.roomStatistics = statistics]
       IN  Commit(Emit(w2, Event("room_list_updated", ToSocket(s),
                                 [rooms |-> AvailableRooms(w2.rooms),
                                  statistics |-> statistics])))
    /\ sockets' = [sockets EXCEPT ![s].state = "open"]
    /\ UNCHANGED <<nextPlayerId, nextRoomId, players, crashed>>

handleGetRooms(s) ==
    /\ Open(s)
    /\ LET w1 == getAvailableRooms(World)
           statistics == getRoomStatistics(w1.rooms)
           w2 == [w1 EXCEPT !.roomStatistics = statistics]
       IN  Commit(Emit(w2, Event("room_list_updated", ToSocket(s),
                                 [rooms |-> AvailableRooms(w2.rooms),
                                  statistics |-> statistics])))
    /\ UNCHANGED <<sockets, nextPlayerId, nextRoomId, players, crashed>>

handleCreateRoom(s, playerName, language) ==
    /\ Open(s)
    /\ IF playerName = ""
       THEN /\ Commit(Emit(World, Error(s, "Name is required")))
            /\ UNCHANGED <<sockets, nextPlayerId, nextRoomId, players, crashed>>
       ELSE LET roomId == nextRoomId
                id == nextPlayerId
                w1 == [World EXCEPT !.playerObjs =
                           Append(@, [socket |-> s, room |-> roomId])]
                w2 == NewGameRoom(w1, roomId, id, language)
                w3 == Emit(w2, Event("room_created", ToSocket(s),
                          [room |-> serialize(w2.rooms[roomId], roomId),
                           player |-> serializePlayer(w2.rooms[roomId], id),
                           players |-> getSerializedPlayers(w2.rooms[roomId])]))
            IN  /\ Commit(broadcastGlobalRoomListUpdate(w3))
                /\ players' = players \cup {id}
                /\ sockets' = [sockets EXCEPT ![s].currentPlayer = id]
                /\ nextPlayerId' = nextPlayerId + 1
                /\ nextRoomId' = nextRoomId + 1
                /\ UNCHANGED crashed

handleJoinRoom(s, roomId, playerName) ==
    /\ Open(s)
    /\ IF roomId = NoRoom \/ playerName = ""
       THEN /\ Commit(Emit(World, Error(s, "Room ID and player name are required")))
            /\ UNCHANGED <<sockets, nextPlayerId, nextRoomId, players, crashed>>
       ELSE IF roomId \notin DOMAIN rooms
       THEN /\ Commit(Emit(World, Error(s, "Room not found")))
            /\ UNCHANGED <<sockets, nextPlayerId, nextRoomId, players, crashed>>
       ELSE IF rooms[roomId].status # "waiting"
       THEN /\ Commit(Emit(World, Error(s, "Game has already started")))
            /\ UNCHANGED <<sockets, nextPlayerId, nextRoomId, players, crashed>>
       ELSE LET id == nextPlayerId
                w1 == [World EXCEPT !.playerObjs =
                           Append(@, [socket |-> s, room |-> roomId])]
            IN  /\ players' = players \cup {id}
                /\ sockets' = [sockets EXCEPT ![s].currentPlayer = id]
                /\ nextPlayerId' = nextPlayerId + 1
                /\ UNCHANGED <<nextRoomId, crashed>>
                /\ IF addPlayerThrows(w1.rooms[roomId])
                   THEN Commit(Emit(w1, Error(s, "Room is full")))
                   ELSE LET w2 == addPlayer(w1, roomId, id)
                            w3 == Emit(w2, Event("chat_history", ToSocket(s),
                                      [messages |-> getChatHistory(w2, roomId)]))
                            w4 == Emit(w3, Event("room_joined", ToSocket(s),
                                      [room |-> serialize(w3.rooms[roomId], roomId),
                                       player |-> serializePlayer(w3.rooms[roomId], id),
                                       players |-> getSerializedPlayers(w3.rooms[roomId]),
                                       host |-> w3.rooms[roomId].host]))
                        IN  Commit(broadcastGlobalRoomListUpdate(w4))

\* Mutant: every participant passes for the host.
isHostAnyone(room, id) == TRUE

\* room.host === currentPlayer.id, the test of the host-only requests.
isHost(room, id) == room.host = id

\* `word` is the candidate Math.random picks in getRandomWord.
handleStartGame(s) ==
    /\ Open(s)
    /\ currentPlayer(s) # NoPlayer
    /\ UNCHANGED <<sockets, nextPlayerId, nextRoomId, players, crashed>>
    /\ LET r == currentRoom(s)
       IN  IF r = NoRoom
           THEN Commit(Emit(World, Error(s, "Not in a room")))
           ELSE IF ~isHost(rooms[r], currentPlayer(s))
           THEN Commit(Emit(World, Error(s, "Only the host can start the game")))
           ELSE IF ~startGameOk(rooms[r])
           THEN Commit(Emit(World, Error(s, "At least 2 players needed to start")))
           ELSE \E word \in Range(WordsFor(rooms[r].language)) :
                    Commit(startGame(World, r, word))

handleResetGame(s) ==
    /\ Open(s)
    /\ currentPlayer(s) # NoPlayer
    /\ UNCHANGED <<sockets, nextPlayerId, nextRoomId, players, crashed>>
    /\ LET r == currentRoom(s)
       IN  IF r = NoRoom \/ ~isHost(rooms[r], currentPlayer(s))
           THEN Commit(Emit(World, Error(s, "Only the host can reset the game")))
           ELSE Commit(resetGame(World, r))

handleSendMessage(s, message) ==
    /\ Open(s)
    /\ currentPlayer(s) # NoPlayer
    /\ UNCHANGED <<sockets, nextPlayerId, nextRoomId, players, crashed>>
    /\ LET r == currentRoom(s)
           id == currentPlayer(s)
       IN  IF r = NoRoom THEN Commit(World)
           ELSE LET messageData == [player |-> serializePlayer(rooms[r], id),
                                    message |-> message, type |-> "player"]
                    w1 == addChatMessage(World, r, messageData)
                    w2 == broadcastToRoom(w1, r, "chat_message", messageData,
                                          NoPlayer)
                IN  IF /\ rooms[r].status = "playing"
                       /\ id # GameState(rooms[r]).drawingPlayerId
                    THEN Commit(handleGuess(w2, r, id, message))
                    ELSE Commit(w2)

handleUpdateCanvas(s, canvasData) ==
    /\ Open(s)
    /\ currentPlayer(s) # NoPlayer
    /\ UNCHANGED <<sockets, nextPlayerId, nextRoomId, players, crashed>>
    /\ LET r == currentRoom(s)
       IN  IF /\ r # NoRoom
              /\ rooms[r].status = "playing"
              /\ currentPlayer(s) = GameState(rooms[r]).drawingPlayerId
           THEN Commit(updateCanvas(World, r, canvasData))
           ELSE Commit(World)

handleClearCanvas(s) == handleUpdateCanvas(s, NoCanvas)

handleLeaveRoom(s) ==
    /\ Open(s)
    /\ currentPlayer(s) # NoPlayer
    /\ LET r == currentRoom(s)
       IN  IF r # NoRoom
           THEN Commit(Emit(removePlayer(World, r, currentPlayer(s)),
                            Event("left_room", ToSocket(s), <<>>)))
           ELSE Commit(Emit(World, Event("left_room", ToSocket(s), <<>>)))
    /\ players' = players \ {currentPlayer(s)}
    /\ sockets' = [sockets EXCEPT ![s].currentPlayer = NoPlayer]
    /\ UNCHANGED <<nextPlayerId, nextRoomId, crashed>>

disconnect(s) ==
    /\ Open(s)
    /\ IF currentPlayer(s) # NoPlayer
       THEN /\ LET r == currentRoom(s)
               IN  IF r # NoRoom
                   THEN Commit(removePlayer(World, r, currentPlayer(s)))
                   ELSE Commit(World)
            /\ players' = players \ {currentPlayer(s)}
       ELSE /\ Commit(World)
            /\ UNCHANGED players
    /\ sockets' = [sockets EXCEPT ![s].state = "closed"]
    /\ UNCHANGED <<nextPlayerId, nextRoomId, crashed>>

(***************************************************************************)
(* Timer callbacks.  A countdown tick is due a second after the previous   *)
(* one, a continuation three seconds after it was scheduled: no            *)
(* continuation stays pending across more than DelayTicks ticks.           *)
(***************************************************************************)
TimerTick(r) ==
    /\ ~crashed
    /\ r \in DOMAIN rooms
    /\ rooms[r].timerInterval
    /\ \A x \in RoomIds : \A i \in 1..Len(timeouts[x]) : timeouts[x][i] < DelayTicks
    /\ Commit(timerCallback(age(World), r))
    /\ UNCHANGED <<sockets, nextPlayerId, nextRoomId, players, crashed>>

\* The setTimeout callback () => this.startNewRound(): this.gameState is read
\* unguarded, so the callback throws when the room has no gameState.
NextRoundTimeout(r) ==
    /\ ~crashed
    /\ timeouts[r] # <<>>
    /\ IF r \notin DOMAIN rooms \/ rooms[r].gameState = NoGameState
       THEN UncaughtException
       ELSE /\ \E word \in Range(availableWords(rooms[r])) :
                 Commit(startNewRound([World EXCEPT !.timeouts[r] = Tail(@)],
                                      r, word))
            /\ UNCHANGED <<sockets, nextPlayerId, nextRoomId, players, crashed>>


(***************************************************************************)
(* The inputs the clients send.                                            *)
(***************************************************************************)
(* The environment: what the clients send and when the timers fire.  Each  *)
(* specification below explores it within its own bounds.                  *)
(***************************************************************************)
Banter == <<"n", "o">>

Shout(word) == <<" ">> \o toUpperCase(word) \o <<" ">>

\* The room of the current player of s, NoRoom when it has none.
RoomOf(s) == IF currentPlayer(s) = NoPlayer THEN NoRoom ELSE currentRoom(s)

InRound(s) == RoomOf(s) # NoRoom /\ rooms[RoomOf(s)].gameState # NoGameState

\* What a client types: small talk or, during a game, the word it was sent
\* with new_round, as it is or shouted with stray blanks.
Texts(s) ==
    IF InRound(s)
    THEN {Banter, GameState(rooms[RoomOf(s)]).currentWord,
          Shout(GameState(rooms[RoomOf(s)]).currentWord)}
    ELSE {Banter}

\* The room a message of s would be stored in holds fewer than n messages.
StoresFewerThan(s, n) ==
    IF RoomOf(s) = NoRoom THEN TRUE
    ELSE Len(roomChatHistory[RoomOf(s)]) < n

\* The countdown of room r has ticked fewer than n times this round.
TickedFewerThan(r, n) ==
    IF r \notin DOMAIN rooms THEN TRUE
    ELSE IF rooms[r].gameState = NoGameState THEN TRUE
    ELSE GameState(rooms[r]).timer > ROUND_SECONDS - n

\* Connections are numbered in the order they are accepted.
Connect(S) ==
    \E s \in S :
        /\ \A t \in S : t < s => sockets[t].state # "new"
        /\ Connection(s)

CreateRoom(S, languages, maxIds) ==
    \E s \in S, language \in languages :
        /\ nextPlayerId <= maxIds
        /\ nextRoomId <= MaxRooms
        /\ handleCreateRoom(s, "Ann", language)

JoinRoom(S, maxIds) ==
    \E s \in S, roomId \in RoomIds :
        /\ nextPlayerId <= maxIds
        /\ handleJoinRoom(s, roomId, "Bob")

StartGame(S) == \E s \in S : handleStartGame(s)

ResetGame(S) == \E s \in S : handleResetGame(s)

SendMessage(S, maxMessages) ==
    \E s \in S :
        /\ StoresFewerThan(s, maxMessages)
        /\ \E message \in Texts(s) : handleSendMessage(s, message)

\* A guesser types the word, once per round.
SendGuess(S, maxMessages) ==
    \E s \in S :
        /\ InRound(s)
        /\ StoresFewerThan(s, maxMessages)
        /\ currentPlayer(s) # GameState(rooms[RoomOf(s)]).drawingPlayerId
        /\ timeouts[RoomOf(s)] = <<>>
        /\ handleSendMessage(s, GameState(rooms[RoomOf(s)]).currentWord)

LeaveRoom(S) == \E s \in S : handleLeaveRoom(s)

Disconnect(S) == \E s \in S : disconnect(s)

\* What a drawing client sends: the payload is opaque to the server.
Drawings == {"a", "b"}

UpdateCanvas(S) == \E s \in S, canvasData \in Drawings : handleUpdateCanvas(s, canvasData)

ClearCanvas(S) == \E s \in S : handleClearCanvas(s)

Reply == <<"o", "k">>

\* A long conversation: each line answers the one before it.
NextLine(s) ==
    LET history == roomChatHistory[RoomOf(s)]
    IN  IF history # <<>> /\ history[Len(history)].message = Banter
        THEN Reply ELSE Banter

Converse(S) ==
    \E s \in S : RoomOf(s) # NoRoom /\ handleSendMessage(s, NextLine(s))

\* The host starts the game late in the conversation, when the history of
\* the room is about to be full.
StartGameLate(S) ==
    \E s \in S :
        /\ RoomOf(s) # NoRoom
        /\ Len(roomChatHistory[RoomOf(s)]) >= CHAT_HISTORY_CAP - 1
        /\ handleStartGame(s)

Tick(maxTicks) == \E r \in RoomIds : TickedFewerThan(r, maxTicks) /\ TimerTick(r)

Timeout == \E r \in RoomIds : NextRoundTimeout(r)

(***************************************************************************)
(* Spec: rooms, membership and the game life cycle.                        *)
(***************************************************************************)
Next ==
    \/ Connect(1..LobbySockets)
    \/ CreateRoom(1..LobbySockets, {"sv"}, MaxPlayerIds)
    \/ JoinRoom(1..LobbySockets, MaxPlayerIds)
    \/ StartGame(1..LobbySockets)
    \/ ResetGame(1..LobbySockets)
    \/ SendMessage(1..LobbySockets, MaxMessages)
    \/ LeaveRoom(1..LobbySockets)
    \/ Disconnect(1..LobbySockets)
    \/ Tick(MaxTicks)
    \/ Timeout

Spec == Init /\ [][Next]_vars

(***************************************************************************)
(* SpecMatch: one game of two players played to the winning score, every   *)
(* round guessed within MatchTicks seconds.                                *)
(***************************************************************************)
NextMatch ==
    \/ Connect(1..MatchSockets)
    \/ CreateRoom(1..MatchSockets, {"sv"}, MatchSockets)
    \/ JoinRoom(1..MatchSockets, MatchSockets)
    \/ StartGame(1..MatchSockets)
    \/ SendGuess(1..MatchSockets, MatchMessages)
    \/ Tick(MatchTicks)
    \/ Timeout

SpecMatch == Init /\ [][NextMatch]_vars

(***************************************************************************)
(* SpecRounds: the rounds of a game with the whole countdown and nobody    *)
(* guessing, members leaving in between.                                   *)
(***************************************************************************)
NextRounds ==
    \/ Connect(Sockets)
    \/ CreateRoom(Sockets, {"sv"}, RoundPlayerIds)
    \/ JoinRoom(Sockets, RoundPlayerIds)
    \/ StartGame(Sockets)
    \/ LeaveRoom(Sockets)
    \/ Tick(ROUND_SECONDS)
    \/ Timeout

SpecRounds == Init /\ [][NextRounds]_vars

(***************************************************************************)
(* SpecScore: guesses at any second of the countdown of a first round.     *)
(***************************************************************************)
NextScore ==
    \/ Connect(Sockets)
    \/ CreateRoom(Sockets, {"sv"}, ScorePlayerIds)
    \/ JoinRoom(Sockets, ScorePlayerIds)
    \/ StartGame(Sockets)
    \/ SendMessage(Sockets, ScoreMessages)
    \/ Tick(ROUND_SECONDS)

SpecScore == Init /\ [][NextScore]_vars


(***************************************************************************)
(* SpecWords: games in English, their rounds ended by correct guesses, the *)
(* host resetting and restarting.                                          *)
(***************************************************************************)
NextWords ==
    \/ Connect(1..WordSockets)
    \/ CreateRoom(1..WordSockets, {"en"}, WordSockets)
    \/ JoinRoom(1..WordSockets, WordSockets)
    \/ StartGame(1..WordSockets)
    \/ ResetGame(1..WordSockets)
    \/ SendGuess(1..WordSockets, WordMessages)
    \/ Timeout

SpecWords == Init /\ [][NextWords]_vars

(***************************************************************************)
(* SpecCanvas: drawing and clearing in rooms of up to three, whoever the   *)
(* sender is and whatever the status.                                      *)
(***************************************************************************)
NextCanvas ==
    \/ Connect(1..CanvasSockets)
    \/ CreateRoom(1..CanvasSockets, {"sv"}, CanvasSockets)
    \/ JoinRoom(1..CanvasSockets, CanvasSockets)
    \/ StartGame(1..CanvasSockets)
    \/ ResetGame(1..CanvasSockets)
    \/ UpdateCanvas(1..CanvasSockets)
    \/ ClearCanvas(1..CanvasSockets)
    \/ LeaveRoom(1..CanvasSockets)

SpecCanvas == Init /\ [][NextCanvas]_vars

(***************************************************************************)
(* SpecChat: a conversation longer than the history holds, going on        *)
(* through a game, its rounds and its resets.                              *)
(***************************************************************************)
NextChat ==
    \/ Connect(1..ChatSockets)
    \/ CreateRoom(1..ChatSockets, {"sv"}, ChatSockets)
    \/ JoinRoom(1..ChatSockets, ChatSockets)
    \/ Converse(1..ChatSenders)
    \/ StartGameLate(1..ChatSockets)
    \/ ResetGame(1..ChatSockets)
    \/ Tick(ROUND_SECONDS)
    \/ Timeout

SpecChat == Init /\ [][NextChat]_vars

(***************************************************************************)
(* SpecLive: games whose timers fire.  The event loop runs every due       *)
(* setInterval and setTimeout callback, so the countdown tick and the      *)
(* delayed continuation are weakly fair; what the clients send is not.     *)
(***************************************************************************)
NextLive ==
    \/ Connect(1..LiveSockets)
    \/ CreateRoom(1..LiveSockets, {"sv"}, LivePlayerIds)
    \/ JoinRoom(1..LiveSockets, LivePlayerIds)
    \/ StartGame(1..LiveSockets)
    \/ SendGuess(1..LiveSockets, LiveMessages)
    \/ LeaveRoom(1..LiveSockets)
    \/ Tick(ROUND_SECONDS)
    \/ Timeout

SpecLive ==
    /\ Init
    /\ [][NextLive]_vars
    /\ WF_vars(Tick(ROUND_SECONDS))
    /\ WF_vars(Timeout)

(***************************************************************************)
(* SpecTicks: whole countdowns in a room of two, the host resetting and    *)
(* restarting at any moment.                                               *)
(***************************************************************************)
NextTicks ==
    \/ Connect(1..TickSockets)
    \/ CreateRoom(1..TickSockets, {"sv"}, TickSockets)
    \/ JoinRoom(1..TickSockets, TickSockets)
    \/ StartGame(1..TickSockets)
    \/ ResetGame(1..TickSockets)
    \/ Tick(ROUND_SECONDS)
    \/ Timeout

SpecTicks == Init /\ [][NextTicks]_vars

(***************************************************************************)
(* SpecFull: the first connection creates a room, the others fill it to   *)
(* its capacity by joining, again and again; members leave and disconnect. *)
(***************************************************************************)
NextFull ==
    \/ Connect(1..FullSockets)
    \/ CreateRoom({1}, {"sv"}, FullPlayerIds)
    \/ JoinRoom(2..FullSockets, FullPlayerIds)
    \/ LeaveRoom(1..FullSockets)
    \/ Disconnect(1..FullSockets)

SpecFull == Init /\ [][NextFull]_vars

(***************************************************************************)
(* SpecCrowd: SpecFull with the connections chatting.                      *)
(***************************************************************************)
NextCrowd ==
    \/ Connect(1..FullSockets)
    \/ CreateRoom({1}, {"sv"}, FullPlayerIds)
    \/ JoinRoom(2..FullSockets, FullPlayerIds)
    \/ SendMessage(1..FullSockets, CrowdMessages)
    \/ LeaveRoom(1..FullSockets)
    \/ Disconnect(1..FullSockets)

SpecCrowd == Init /\ [][NextCrowd]_vars

(***************************************************************************)
(* SpecClock: ticks, guesses, round ends, new rounds and resets in any     *)
(* order; the countdown is left free to tick once more after 0.            *)
(***************************************************************************)
NextClock ==
    \/ Connect(1..ClockSockets)
    \/ CreateRoom(1..ClockSockets, {"sv"}, ClockSockets)
    \/ JoinRoom(1..ClockSockets, ClockSockets)
    \/ StartGame(1..ClockSockets)
    \/ ResetGame(1..ClockSockets)
    \/ SendMessage(1..ClockSockets, ClockMessages)
    \/ Tick(ROUND_SECONDS + 1)
    \/ Timeout

SpecClock == Init /\ [][NextClock]_vars

(***************************************************************************)
(* Properties.                                                             *)
(***************************************************************************)
Registered == DOMAIN rooms

\* Rooms registered before and after the step.
Surviving == DOMAIN rooms \cap DOMAIN rooms'

AllowedStatusChange(old, new) ==
    \/ old = new
    \/ old = "waiting" /\ new = "playing"
    \/ old = "playing" /\ new = "waiting"
    \/ old = "playing" /\ new = "finished"

\* C1: a room's status changes only waiting->playing, playing->waiting or
\* playing->finished; a finished room stays finished.
C1_StatusTransitions ==
    [][\A r \in Surviving :
          AllowedStatusChange(rooms[r].status, rooms'[r].status)]_vars

\* C2: once a room has emitted game_ended, no step emits new_round for it or
\* arms its countdown again.
C2_NoRoundAfterGameEnded ==
    [][\A r \in gameEnded :
          /\ SentTo(emitted', r, "new_round") = {}
          /\ r \in Surviving => ~rooms'[r].timerInterval]_vars

\* The game of room r goes on through the step: same score table, maybe
\* other scores.
SameGame(r) ==
    /\ r \in Surviving
    /\ rooms[r].gameState # NoGameState
    /\ rooms'[r].gameState # NoGameState
    /\ Len(GameState(rooms[r]).scores) = Len(GameState(rooms'[r]).scores)
    /\ \A i \in 1..Len(GameState(rooms[r]).scores) :
           GameState(rooms[r]).scores[i].id = GameState(rooms'[r]).scores[i].id

\* C3 as claimed: a player whose score a guess brings to exactly 1000 is the
\* winner game_ended names, and the room is finished in that event.
C3_ExactScoreNamesThatPlayer ==
    [][\A r \in RoomIds : SameGame(r) =>
          \A i \in 1..Len(GameState(rooms[r]).scores) :
              (/\ GameState(rooms[r]).scores[i].score < 1000
               /\ GameState(rooms'[r]).scores[i].score = 1000)
              => /\ rooms'[r].status = "finished"
                 /\ \E e \in SentTo(emitted', r, "game_ended") :
                        emitted'[e].data.winner.id =
                            GameState(rooms[r]).scores[i].id]_vars

\* C3 amended: when a guess brings a score to 1000 or more, game_ended is
\* emitted once, naming the first player in score-table order who is at 1000
\* or more, with that score, and the room is finished in that event.
C3_FirstAtThresholdWins ==
    [][\A r \in RoomIds : SameGame(r) =>
          LET before == GameState(rooms[r]).scores
              after == GameState(rooms'[r]).scores
              at == {i \in 1..Len(after) : after[i].score >= 1000}
          IN  ((\A i \in 1..Len(before) : before[i].score < 1000) /\ at # {})
              => /\ rooms'[r].status = "finished"
                 /\ Cardinality(SentTo(emitted', r, "game_ended")) = 1
                 /\ \A e \in SentTo(emitted', r, "game_ended") :
                      \E i \in at :
                        /\ \A j \in at : i <= j
                        /\ emitted'[e].data.winner.id = after[i].id
                        /\ emitted'[e].data.winnerScore = after[i].score]_vars

\* C3 witness: both scorers of a guess stand at 1000 or more, one of them at
\* exactly 1000, and game_ended has named the first of them in the score table.
C3_Witness ==
    \E r \in Registered :
        /\ rooms[r].status = "finished"
        /\ rooms[r].gameState # NoGameState
        /\ LET scores == GameState(rooms[r]).scores
               at == {i \in 1..Len(scores) : scores[i].score >= 1000}
           IN  /\ Cardinality(at) = 2
               /\ \E i \in at : scores[i].score = 1000
               /\ \E e \in SentTo(emitted, r, "game_ended") :
                      \E i \in at :
                          /\ \A j \in at : i <= j
                          /\ emitted[e].data.winner.id = scores[i].id

\* C7: a room has a gameState exactly when its status is playing.
C7_RoundIffPlaying ==
    \A r \in Registered :
        (rooms[r].gameState # NoGameState) <=> (rooms[r].status = "playing")


\* C4: a guess accepted as correct adds 30 + 10*floor(remaining/10) to the
\* guesser's score and 40 + 10*floor(remaining/10) to the drawer's, and no
\* other score changes; scores change in no other way during a game.
C4_ScoreAward ==
    [][\A r \in RoomIds :
          /\ \A e \in SentTo(emitted', r, "correct_guess") :
                LET gs == GameState(rooms[r])
                    guesser == emitted'[e].data.guessingPlayer.id
                    drawer == gs.drawingPlayerId
                    bonus == 10 * (gs.timer \div 10)
                IN  /\ rooms[r].status = "playing"
                    /\ guesser # drawer
                    /\ Contains(rooms[r].players, guesser)
                    /\ Contains(rooms[r].players, drawer)
                    /\ SameGame(r)
                    /\ \A i \in 1..Len(gs.scores) :
                          GameState(rooms'[r]).scores[i].score =
                              gs.scores[i].score +
                              (IF gs.scores[i].id = guesser THEN 30 + bonus
                               ELSE IF gs.scores[i].id = drawer THEN 40 + bonus
                               ELSE 0)
          /\ (SameGame(r) /\ SentTo(emitted', r, "correct_guess") = {})
                => GameState(rooms'[r]).scores = GameState(rooms[r]).scores]_vars

\* C4 witness: a guess scored with 37 seconds left in a room of three: 60 to
\* the guesser, 70 to the drawer, nothing to the third member.
C4_Witness ==
    \E r \in Registered :
        /\ rooms[r].gameState # NoGameState
        /\ GameState(rooms[r]).timer = 37
        /\ \E e \in SentTo(emitted, r, "correct_guess") :
               /\ emitted[e].data.guessingPlayerPoints = 60
               /\ emitted[e].data.drawingPlayerPoints = 70
        /\ {GameState(rooms[r]).scores[i].score :
               i \in 1..Len(GameState(rooms[r]).scores)} = {0, 60, 70}

\* C5: in a room of two or more, a new round of a running game has another
\* drawer than the round before it.
C5_DrawerChanges ==
    [][\A r \in Surviving :
          (/\ SentTo(emitted', r, "new_round") # {}
           /\ rooms[r].gameState # NoGameState
           /\ GameState(rooms[r]).drawingPlayerId # NoPlayer
           /\ Len(rooms'[r].players) >= 2)
          => GameState(rooms'[r]).drawingPlayerId #
                 GameState(rooms[r]).drawingPlayerId]_vars

\* C6: when a member of a playing room of two is removed, game_ended_early
\* with the not-enough-players reason goes to the remaining member, the
\* countdown is cancelled and the room is finished.
C6_LeaveEndsGameEarly ==
    [][\A r \in Registered :
          (/\ rooms[r].status = "playing"
           /\ Len(rooms[r].players) = 2
           /\ ~crashed'
           /\ r \in DOMAIN rooms' => rooms'[r].players # rooms[r].players)
          => /\ r \in DOMAIN rooms'
             /\ rooms'[r].status = "finished"
             /\ ~rooms'[r].timerInterval
             /\ Len(rooms'[r].players) = 1
             /\ \E e \in SentTo(emitted', r, "game_ended_early") :
                   /\ emitted'[e].to.ids = rooms'[r].players
                   /\ emitted'[e].data.reason = "not_enough_players"
                   /\ emitted'[e].data.remainingPlayer =
                         <<serializePlayer(rooms'[r], rooms'[r].players[1])>>]_vars

\* C6 witness: a room left finished, with one member, by game_ended_early.
C6_Witness ==
    \E r \in Registered :
        /\ rooms[r].status = "finished"
        /\ Len(rooms[r].players) = 1
        /\ SentTo(emitted, r, "game_ended_early") # {}

\* C8: the host of a registered room with members is one of its members.
C8_HostIsMember ==
    \A r \in Registered :
        rooms[r].players # <<>> => Contains(rooms[r].players, rooms[r].host)

\* C8 witness: the host has just left a room of three and one of the two
\* members left is host.
C8_Witness ==
    \E r \in Registered :
        /\ Len(rooms[r].players) = 2
        /\ \E e \in SentTo(emitted, r, "player_left") :
               /\ emitted[e].data.playerId # rooms[r].host
               /\ emitted[e].data.host = rooms[r].host
               /\ emitted[e].data.host # 1
        /\ rooms[r].host # 1
        /\ Contains(rooms[r].players, rooms[r].host)

\* C9: no registered room has an empty roster, and chat history is kept for
\* the registered rooms only.
C9_NoEmptyRoom ==
    /\ \A r \in Registered : rooms[r].players # <<>>
    /\ DOMAIN roomChatHistory = Registered

\* C9 witness: the last member has left the room that was created; it is
\* gone from the registry, and so is its chat history.
C9_Witness ==
    /\ ~crashed
    /\ nextRoomId > 1
    /\ Registered = {}
    /\ roomChatHistory = <<>>
    /\ \E e \in 1..Len(emitted) : emitted[e].name = "left_room"

\* The conditions under which start_game may start a game.
StartAllowed(s) ==
    /\ RoomOf(s) # NoRoom
    /\ rooms[RoomOf(s)].status = "waiting"
    /\ Len(rooms[RoomOf(s)].players) >= 2
    /\ rooms[RoomOf(s)].host = currentPlayer(s)

\* C10: a start_game request made when the room is not waiting, has fewer
\* than 2 members or the requester is not its host answers the requester with
\* an error and changes no state.
C10_FailedStartChangesNothing ==
    [][\A s \in Sockets :
          (handleStartGame(s) /\ ~StartAllowed(s))
          => /\ UNCHANGED <<rooms, timeouts, roomChatHistory, roomStatistics,
                            players, playerObjs, sockets, gameEnded>>
             /\ Len(emitted') = 1
             /\ emitted'[1].name = "error"
             /\ emitted'[1].to = ToSocket(s)]_vars

\* C10 witness: the host of a room of one was refused, the room still waits.
C10_Witness ==
    /\ \E e \in 1..Len(emitted) :
           /\ emitted[e].name = "error"
           /\ emitted[e].data.message = "At least 2 players needed to start"
    /\ \E r \in Registered :
           rooms[r].status = "waiting" /\ Len(rooms[r].players) = 1


\* A join_room request of s for a registered, waiting room that is full.
JoinsFullRoom(s, roomId) ==
    /\ roomId \in Registered
    /\ rooms[roomId].status = "waiting"
    /\ Len(rooms[roomId].players) = MAX_PLAYERS
    /\ handleJoinRoom(s, roomId, "Bob")

\* C11: no roster ever has more than 8 members, and a join of a room that
\* has 8 members is rejected: the roster stays as it is and the caller gets
\* the room-full error.
C11_RosterWithinCapacity ==
    [][/\ \A r \in DOMAIN rooms' : Len(rooms'[r].players) <= MAX_PLAYERS
       /\ \A s \in Sockets, roomId \in RoomIds :
             JoinsFullRoom(s, roomId)
             => /\ rooms'[roomId].players = rooms[roomId].players
                /\ \E e \in 1..Len(emitted') :
                       /\ emitted'[e].name = "error"
                       /\ emitted'[e].to = ToSocket(s)
                       /\ emitted'[e].data.message = "Room is full"]_vars

\* C11 witness: a join was just refused by a room of 8.
C11_Witness ==
    /\ \E r \in Registered : Len(rooms[r].players) = MAX_PLAYERS
    /\ \E e \in 1..Len(emitted) :
           emitted[e].name = "error" /\ emitted[e].data.message = "Room is full"

\* C12: a join refused because the room is full sends the error to the
\* caller and nothing else, and leaves the roster, the participant registry
\* and the connection's participant as they were.
C12_RefusedJoinChangesNothing ==
    [][\A s \in Sockets, roomId \in RoomIds :
          JoinsFullRoom(s, roomId)
          => /\ UNCHANGED <<rooms, players, playerObjs, sockets>>
             /\ Len(emitted') = 1
             /\ emitted'[1].name = "error"
             /\ emitted'[1].to = ToSocket(s)]_vars


\* The participants created by the connection s.
CreatedBy(s) == {id \in 1..Len(playerObjs) : playerObjs[id].socket = s}

\* C13: once a connection has terminated, no participant it created is in a
\* roster or in the participant registry.
C13_NothingLeftOfClosedConnection ==
    \A s \in Sockets :
        sockets[s].state = "closed"
        => \A id \in CreatedBy(s) :
              /\ id \notin players
              /\ \A r \in Registered : ~Contains(rooms[r].players, id)


\* The number of registered rooms in the given status.
RoomsIn(status) == Cardinality({r \in Registered : rooms[r].status = status})

\* The room_list_updated events among those of the last handler.
RoomListUpdates == {e \in 1..Len(emitted) : emitted[e].name = "room_list_updated"}

\* C14: every registered room is waiting, playing or finished, and the
\* counters total/waiting/playing/finished, in the server and in the last
\* room_list_updated payload of a handler, are the counts of the registry.
C14_StatisticsMatchRegistry ==
    LET counted == [total |-> Cardinality(Registered),
                    waiting |-> RoomsIn("waiting"),
                    playing |-> RoomsIn("playing"),
                    finished |-> RoomsIn("finished")]
    IN  /\ \A r \in Registered :
               rooms[r].status \in {"waiting", "playing", "finished"}
        /\ roomStatistics = counted
        /\ \A e \in RoomListUpdates :
               (\A f \in RoomListUpdates : f <= e)
               => emitted[e].data.statistics = counted

\* C14 witness: a finished room is counted, in the server and in the list
\* just broadcast.
C14_Witness ==
    /\ RoomsIn("finished") = 1
    /\ roomStatistics.finished = 1
    /\ \E e \in RoomListUpdates : emitted[e].data.statistics.finished = 1


\* The words chosen so far in the game a step of room r continues or, for
\* the step that starts a game, none.
ChosenBefore(r) ==
    IF r \in Registered /\ rooms[r].gameState # NoGameState
    THEN GameState(rooms[r]).usedWords ELSE <<>>

\* C15: the word of a new round is a word of the room's list that was not
\* chosen before in the game, unless every word of the list was; only then
\* does the history of used words start over.
C15_NoWordTwice ==
    [][\A r \in DOMAIN rooms' :
          (SentTo(emitted', r, "new_round") # {} /\ rooms'[r].gameState # NoGameState)
          => LET words == Range(WordsFor(rooms'[r].language))
                 word == GameState(rooms'[r]).currentWord
             IN  /\ word \in words
                 /\ Cardinality(SentTo(emitted', r, "new_round")) = 1
                 /\ IF Range(ChosenBefore(r)) = words
                    THEN GameState(rooms'[r]).usedWords = <<word>>
                    ELSE /\ ~Contains(ChosenBefore(r), word)
                         /\ GameState(rooms'[r]).usedWords =
                                Append(ChosenBefore(r), word)]_vars

\* C15 witness: the third round of a game has used up the three words.
C15_Witness ==
    \E r \in Registered :
        /\ rooms[r].status = "playing"
        /\ SentTo(emitted, r, "new_round") # {}
        /\ Len(GameState(rooms[r]).usedWords) = 3
        /\ Range(GameState(rooms[r]).usedWords) = Range(WordsFor("en"))


\* The roster member after `id` in circular order.
NextInRoster(roster, id) ==
    LET i == CHOOSE k \in 1..Len(roster) : roster[k] = id
    IN  roster[(i % Len(roster)) + 1]

\* The tick of room r's countdown that takes it to 0.
LastTick(r) ==
    /\ r \in Registered
    /\ rooms[r].status = "playing"
    /\ rooms[r].gameState # NoGameState
    /\ GameState(rooms[r]).timer = 1
    /\ TimerTick(r)

\* C16: the tick that takes the countdown to 0 emits round_ended with the
\* word, and the continuation due after the post-round delay emits exactly
\* one new_round, whose drawer follows the previous drawer in the roster,
\* with the countdown at 60 and no canvas payload.
C16_TimeUpStartsNextRound ==
    [][\A r \in RoomIds :
          /\ LastTick(r)
             => \E e \in SentTo(emitted', r, "round_ended") :
                    emitted'[e].data.word = GameState(rooms[r]).currentWord
          /\ NextRoundTimeout(r)
             => /\ r \in DOMAIN rooms'
                /\ rooms'[r].gameState # NoGameState
                /\ Cardinality(SentTo(emitted', r, "new_round")) = 1
                /\ GameState(rooms'[r]).timer = ROUND_SECONDS
                /\ GameState(rooms'[r]).canvasData = NoCanvas
                /\ rooms'[r].timerInterval
                /\ Contains(rooms[r].players, GameState(rooms[r]).drawingPlayerId)
                   => GameState(rooms'[r]).drawingPlayerId =
                          NextInRoster(rooms[r].players,
                                       GameState(rooms[r]).drawingPlayerId)]_vars


\* The current participant of s references a registered room it is not the
\* host of.
NotHost(s) ==
    /\ RoomOf(s) # NoRoom
    /\ rooms[RoomOf(s)].host # currentPlayer(s)

\* C17: start_game and reset_game from a participant who is not the host of
\* its room send an error to the caller only and change no state.
C17_HostOnlyRequests ==
    [][\A s \in Sockets :
          (NotHost(s) /\ (handleStartGame(s) \/ handleResetGame(s)))
          => /\ UNCHANGED <<rooms, timeouts, roomChatHistory, roomStatistics,
                            players, playerObjs, sockets, gameEnded>>
             /\ Len(emitted') = 1
             /\ emitted'[1].name = "error"
             /\ emitted'[1].to = ToSocket(s)]_vars

\* C17 witness: a reset was just refused in a room that is playing.
C17_Witness ==
    /\ \E e \in 1..Len(emitted) :
           /\ emitted[e].name = "error"
           /\ emitted[e].data.message = "Only the host can reset the game"
    /\ \E r \in Registered :
           rooms[r].status = "playing" /\ Len(rooms[r].players) >= 2


\* The current participant of s is the drawer of a playing room.
Draws(s) ==
    /\ RoomOf(s) # NoRoom
    /\ rooms[RoomOf(s)].status = "playing"
    /\ rooms[RoomOf(s)].gameState # NoGameState
    /\ GameState(rooms[RoomOf(s)]).drawingPlayerId = currentPlayer(s)

\* C18: an update or a clear of the canvas from the drawer of a playing room
\* stores the payload in the gameState and sends canvas_updated to every
\* roster member but the drawer; from anyone else, or in any other status,
\* it stores nothing and sends nothing.
C18_CanvasFromDrawerOnly ==
    [][\A s \in Sockets, canvasData \in Drawings \cup {NoCanvas} :
          handleUpdateCanvas(s, canvasData)
          => IF Draws(s)
             THEN LET r == RoomOf(s)
                      others == Without(rooms[r].players, currentPlayer(s))
                  IN  /\ rooms' = [rooms EXCEPT
                                     ![r].gameState[1].canvasData = canvasData]
                      /\ others # <<>>
                         => /\ Len(emitted') = 1
                            /\ emitted'[1] = Event("canvas_updated",
                                                   ToRoom(r, others),
                                                   [canvasData |-> canvasData])
                      /\ others = <<>> => emitted' = <<>>
             ELSE rooms' = rooms /\ emitted' = <<>>]_vars

\* C18 witness: a drawing was stored and relayed to the two other members.
C18_Witness ==
    \E r \in Registered :
        /\ rooms[r].status = "playing"
        /\ Len(rooms[r].players) = 3
        /\ GameState(rooms[r]).canvasData = "a"
        /\ \E e \in SentTo(emitted, r, "canvas_updated") :
               /\ Len(emitted[e].to.ids) = 2
               /\ ~Contains(emitted[e].to.ids, GameState(rooms[r]).drawingPlayerId)


\* The last n elements of seq, all of it when it has no more than n.
LastOf(seq, n) ==
    IF Len(seq) > n THEN SubSeq(seq, Len(seq) - n + 1, Len(seq)) ELSE seq

\* s sends `message` to room r, where it is stored.
Stores(s, r, message) == RoomOf(s) = r /\ handleSendMessage(s, message)

\* C19: the chat history of a room never holds more than 100 messages; a
\* message sent to the room is appended and the last 100 are kept, in order;
\* nothing else (a new round, a reset) changes the history of a registered
\* room.
C19_ChatHistoryLastHundred ==
    [][\A r \in DOMAIN roomChatHistory' :
          /\ Len(roomChatHistory'[r]) <= CHAT_HISTORY_CAP
          /\ r \in DOMAIN roomChatHistory
             => /\ \A s \in Sockets, message \in {Banter, Reply} :
                      Stores(s, r, message)
                      => roomChatHistory'[r] =
                             LastOf(Append(roomChatHistory[r],
                                           [player |-> serializePlayer(rooms[r],
                                                           currentPlayer(s)),
                                            message |-> message,
                                            type |-> "player"]),
                                    CHAT_HISTORY_CAP)
                /\ (~\E s \in Sockets, message \in {Banter, Reply} :
                        Stores(s, r, message))
                   => roomChatHistory'[r] = roomChatHistory[r]]_vars

\* C19 witness: in the second round of a game the history holds 100
\* messages, the first message of the conversation no longer among them.
C19_Witness ==
    \E r \in Registered :
        /\ rooms[r].status = "playing"
        /\ GameState(rooms[r]).currentPlayerIndex = 1
        /\ Len(roomChatHistory[r]) = CHAT_HISTORY_CAP
        /\ roomChatHistory[r][1].message = Reply


\* C20: every chat_message delivered to a room, from a player or from the
\* system, is in the chat history of that room when the handler returns.
C20_DeliveredChatIsStored ==
    [][\A r \in DOMAIN roomChatHistory' :
          \A e \in SentTo(emitted', r, "chat_message") :
              Contains(roomChatHistory'[r], emitted'[e].data)]_vars


Playing(r) == r \in Registered /\ rooms[r].status = "playing"

\* The last handler started a round in room r.
RoundStarted(r) == SentTo(emitted, r, "new_round") # {}

\* C21: while a room is playing, a running countdown is eventually stopped
\* (by a correct guess or at 0), and every round is eventually followed by a
\* new round unless the room stops playing.
C21_RoundsGoOn ==
    \A r \in RoomIds :
        /\ (Playing(r) /\ rooms[r].timerInterval)
               ~> (~Playing(r) \/ ~rooms[r].timerInterval)
        /\ (Playing(r) /\ ~RoundStarted(r))
               ~> (~Playing(r) \/ RoundStarted(r))

\* C21 witness: a second round has begun in a room that plays on.
C21_Witness ==
    \E r \in RoomIds :
        /\ Playing(r)
        /\ RoundStarted(r)
        /\ GameState(rooms[r]).currentPlayerIndex = 1


\* The game room r had when a continuation was scheduled is over: the room
\* was reset, finished or torn down.
GameOver(r) ==
    \/ r \notin Registered
    \/ rooms[r].status # "playing"
    \/ rooms[r].gameState = NoGameState

\* C22: a delayed continuation that fires when its room was reset, finished
\* or torn down does nothing: no event, no state change, no timer, no error.
C22_StaleContinuationDoesNothing ==
    [][\A r \in RoomIds :
          (GameOver(r) /\ NextRoundTimeout(r))
          => /\ ~crashed'
             /\ emitted' = <<>>
             /\ UNCHANGED <<rooms, roomChatHistory, roomStatistics, players,
                            playerObjs, sockets>>]_vars

\* The round-advancing timers armed for room r: its countdown and its
\* pending continuations.
ArmedTimers(r) ==
    Len(timeouts[r]) +
    (IF r \in Registered /\ rooms[r].timerInterval THEN 1 ELSE 0)

\* C23: at most one round-advancing timer is armed per room at any time.
C23_OneTimerPerRoom == \A r \in RoomIds : ArmedTimers(r) <= 1


\* C24: a countdown tick in a room with no gameState or not playing cancels
\* the countdown, changes nothing else and emits nothing; any other tick
\* takes 1 off the remaining seconds and emits timer_update with the new
\* value, and at 0 it cancels the countdown and ends the round once.
C24_CountdownTick ==
    [][\A r \in RoomIds :
          TimerTick(r)
          => IF rooms[r].gameState = NoGameState \/ rooms[r].status # "playing"
             THEN /\ rooms' = [rooms EXCEPT ![r].timerInterval = FALSE]
                  /\ emitted' = <<>>
                  /\ Len(timeouts'[r]) = Len(timeouts[r])
                  /\ UNCHANGED <<roomChatHistory, roomStatistics, players,
                                 playerObjs, sockets>>
             ELSE LET timer == GameState(rooms[r]).timer - 1
                  IN  /\ rooms'[r].gameState # NoGameState
                      /\ GameState(rooms'[r]).timer = timer
                      /\ Cardinality(SentTo(emitted', r, "timer_update")) = 1
                      /\ \A e \in SentTo(emitted', r, "timer_update") :
                             emitted'[e].data.timer = timer
                      /\ IF timer = 0
                         THEN /\ ~rooms'[r].timerInterval
                              /\ Cardinality(SentTo(emitted', r, "round_ended")) = 1
                              /\ Len(timeouts'[r]) = Len(timeouts[r]) + 1
                         ELSE /\ timer > 0
                              /\ rooms'[r].timerInterval
                              /\ SentTo(emitted', r, "round_ended") = {}
                              /\ Len(timeouts'[r]) = Len(timeouts[r])]_vars

\* C24 witness: the countdown has just reached 0 and ended the round.
C24_Witness ==
    \E r \in Registered :
        /\ rooms[r].status = "playing"
        /\ GameState(rooms[r]).timer = 0
        /\ ~rooms[r].timerInterval
        /\ SentTo(emitted, r, "timer_update") # {}
        /\ SentTo(emitted, r, "round_ended") # {}


\* C25: at every event boundary a room whose status is playing has at least
\* 2 roster members.
C25_PlayingRoomHasTwo == \A r \in RoomIds : Playing(r) => Len(rooms[r].players) >= 2

\* C25 witness: a room is left with exactly one member by a leave during the
\* game, and that same event finished the game.
C25_Witness ==
    \E r \in Registered :
        /\ Len(rooms[r].players) = 1
        /\ rooms[r].status = "finished"
        /\ SentTo(emitted, r, "player_left") # {}
        /\ SentTo(emitted, r, "game_ended_early") # {}

\* C26: while a room is playing, the drawer recorded on the round is a member
\* of the room's roster.
C26_DrawerIsMember ==
    \A r \in RoomIds :
        (Playing(r) /\ rooms[r].gameState # NoGameState)
        => Contains(rooms[r].players, GameState(rooms[r]).drawingPlayerId)


\* A round of room r is over: it was scored or its word was revealed, and the
\* continuation that starts the next round is still pending.
RoundOver(r) == Playing(r) /\ rooms[r].gameState # NoGameState /\ timeouts[r] # <<>>

\* C27: once a correct guess has been scored, or round_ended has revealed
\* the word, no points are awarded until the next new_round.
C27_OneScoringPerRound ==
    [][\A r \in RoomIds :
          (RoundOver(r) /\ r \in DOMAIN rooms' /\ rooms'[r].gameState # NoGameState)
          => /\ GameState(rooms'[r]).scores = GameState(rooms[r]).scores
             /\ SentTo(emitted', r, "correct_guess") = {}]_vars


\* C28: a chat message is relayed to a room's members and stored in that
\* room's chat history only if its sender is a member of that room's roster.
C28_OnlyMembersChat ==
    [][\A s \in Sockets, r \in RoomIds :
          (/\ Stores(s, r, Banter)
           /\ \/ SentTo(emitted', r, "chat_message") # {}
              \/ roomChatHistory'[r] # roomChatHistory[r])
          => Contains(rooms[r].players, currentPlayer(s))]_vars


\* C29: whenever a gameState exists its timer is within 0..60.
C29_TimerInRange ==
    \A r \in Registered :
        rooms[r].gameState # NoGameState
        => GameState(rooms[r]).timer \in 0..ROUND_SECONDS

\* C29 witness: the countdown stands at 0 with the next round pending, after
\* a guess was scored earlier in the game.
C29_Witness ==
    \E r \in Registered :
        /\ rooms[r].gameState # NoGameState
        /\ GameState(rooms[r]).timer = 0
        /\ timeouts[r] # <<>>
        /\ \E i \in 1..Len(GameState(rooms[r]).scores) :
               GameState(rooms[r]).scores[i].score > 0

====
